---- MODULE Spec2Model ----
(***************************************************************************)
(* BynamoDB: a typed data-mapping layer over a hash/range key-value store. *)
(* The module models bynamodb/attributes.py (typed validation and wire     *)
(* encoding) and bynamodb/model.py (schema derivation, item writes and     *)
(* reads, table creation), together with the store the calls go to.        *)
(***************************************************************************)
EXTENDS Integers, Sequences, FiniteSets, TLC

(***************************************************************************)
(* Python values.  A value is a pair <<type, payload>>: the type is the    *)
(* name type(value) gives, the payload an integer (int), a number of       *)
(* halves (float, Decimal: 3 is 1.5), text (str, unicode), a boolean       *)
(* (bool), a set of values (set) or 0 (NoneType, list, dict).              *)
(***************************************************************************)
None == <<"NoneType", 0>>

PyType(v) == v[1]

PyInt(n) == <<"int", n>>

PyFloat(halves) == <<"float", halves>>

PyStr(s) == <<"str", s>>

PySet(elems) == <<"set", elems>>

\* Largest integer whose decimal text the model writes and reads back.
MaxNum == 3

\* bool(value): the truth value Python's `if value:` tests.
Truthy(v) ==
    CASE PyType(v) = "NoneType" -> FALSE
      [] PyType(v) = "bool" -> v[2]
      [] PyType(v) \in {"int", "float", "Decimal"} -> v[2] /= 0
      [] PyType(v) \in {"str", "unicode"} -> v[2] /= ""
      [] PyType(v) = "set" -> v[2] /= {}
      [] OTHER -> TRUE

\* The number a numeric value stands for, in halves.
Halves(v) == IF PyType(v) = "int" THEN 2 * v[2] ELSE v[2]

\* a == b as Python evaluates it on the values of the model.
PyEq(a, b) ==
    CASE PyType(a) \in {"int", "float", "Decimal"}
           /\ PyType(b) \in {"int", "float", "Decimal"} -> Halves(a) = Halves(b)
      [] PyType(a) \in {"str", "unicode"}
           /\ PyType(b) \in {"str", "unicode"} -> a[2] = b[2]
      [] OTHER -> a = b

(***************************************************************************)
(* bynamodb/attributes.py                                                  *)
(***************************************************************************)
StringAttribute == "S"
NumberAttribute == "N"
BinaryAttribute == "B"
BooleanAttribute == "BOOL"
StringSetAttribute == "SS"
NumberSetAttribute == "NS"
BinarySetAttribute == "BS"
ListAttribute == "L"
MapAttribute == "M"

Kinds == {StringAttribute, NumberAttribute, BinaryAttribute, BooleanAttribute,
          StringSetAttribute, NumberSetAttribute, BinarySetAttribute,
          ListAttribute, MapAttribute}

\* SetAttribute.set_of of the three set kinds.
set_of(kind) ==
    CASE kind = StringSetAttribute -> StringAttribute
      [] kind = NumberSetAttribute -> NumberAttribute
      [] kind = BinarySetAttribute -> BinaryAttribute

\* NumberAttribute.valid with floats refused, as test_attributes.py expects.
NumberValidIntOnly(value) == PyType(value) = "int"

\* NumberAttribute.valid
NumberValid(value) == PyType(value) \in {"int", "float"}

\* Attribute.valid of the scalar kinds and of List and Map.
ScalarValid(kind, value) ==
    CASE kind = StringAttribute -> PyType(value) \in {"str", "unicode"}
      [] kind = BooleanAttribute -> PyType(value) = "bool"
      [] kind = BinaryAttribute -> PyType(value) = "str"
      [] kind = NumberAttribute -> NumberValid(value)
      [] kind = ListAttribute -> PyType(value) = "list"
      [] kind = MapAttribute -> PyType(value) = "dict"

\* valid(value) of the attribute kind.
valid(kind, value) ==
    IF kind \in {StringSetAttribute, NumberSetAttribute, BinarySetAttribute}
    THEN /\ PyType(value) = "set"
         /\ \A elem \in value[2] : ScalarValid(set_of(kind), elem)
    ELSE ScalarValid(kind, value)

(***************************************************************************)
(* boto's Dynamizer: the wire form is a one-entry tagged record, here the  *)
(* pair <<tag, payload>>; a number travels as decimal text.                *)
(***************************************************************************)
Digit(d) ==
    CASE d = 0 -> "0" [] d = 1 -> "1" [] d = 2 -> "2" [] d = 3 -> "3"
      [] d = 4 -> "4" [] d = 5 -> "5" [] d = 6 -> "6" [] d = 7 -> "7"
      [] d = 8 -> "8" [] d = 9 -> "9"

RECURSIVE IntText(_)
IntText(n) == IF n < 10 THEN Digit(n) ELSE IntText(n \div 10) \o Digit(n % 10)

\* str(Decimal) of a number given in halves: "1" for 1 and 1.0, "1.5" for 1.5
DecimalText(halves) ==
    IF halves % 2 = 0 THEN IntText(halves \div 2)
    ELSE IntText(halves \div 2) \o ".5"

\* Decimal(text): the number of halves whose text this is.
ParseDecimal(text) ==
    CHOOSE h \in 0..(2 * MaxNum + 3) : DecimalText(h) = text

IsNum(v) == PyType(v) \in {"int", "float", "bool", "Decimal"}

IsStr(v) == PyType(v) \in {"str", "unicode"}

\* Dynamizer._get_dynamodb_type; "TypeError" where it finds no type and
\* Dynamizer.encode raises.
DynamodbType(v) ==
    CASE PyType(v) = "NoneType" -> "NULL"
      [] PyType(v) = "bool" -> "BOOL"
      [] IsNum(v) -> "N"
      [] IsStr(v) -> "S"
      [] PyType(v) = "set" ->
           IF \A e \in v[2] : IsNum(e) THEN "NS"
           ELSE IF \A e \in v[2] : IsStr(e) THEN "SS" ELSE "TypeError"
      [] PyType(v) = "dict" -> "M"
      [] PyType(v) = "list" -> "L"

\* Dynamizer.encode
DynamizerEncode(v) ==
    LET t == DynamodbType(v) IN
    CASE t = "N" -> <<"N", DecimalText(Halves(v))>>
      [] t = "NS" -> <<"NS", {DecimalText(Halves(e)) : e \in v[2]}>>
      [] t = "SS" -> <<"SS", {e[2] : e \in v[2]}>>
      [] OTHER -> <<t, v[2]>>

\* Dynamizer.decode: numbers come back as Decimal, text as unicode.
DynamizerDecode(w) ==
    CASE w[1] = "N" -> <<"Decimal", ParseDecimal(w[2])>>
      [] w[1] = "S" -> <<"unicode", w[2]>>
      [] w[1] = "BOOL" -> <<"bool", w[2]>>
      [] w[1] = "NS" -> <<"set", {<<"Decimal", ParseDecimal(t)>> : t \in w[2]}>>
      [] w[1] = "SS" -> <<"set", {<<"unicode", t>> : t \in w[2]}>>
      [] w[1] = "NULL" -> None
      [] OTHER -> <<"opaque", w[2]>>

\* The outcome of a call: a returned value or a raised exception.
Returned(v) == <<"return", v>>

Raised(exc) == <<"raise", exc>>

IsRaised(outcome, exc) == outcome[1] = "raise" /\ outcome[2][1] = exc

IsReturned(outcome) == outcome[1] = "return"

\* Attribute.encode
encode(kind, value) ==
    IF ~valid(kind, value) THEN Raised(<<"ValueError", "">>)
    ELSE Returned(DynamizerEncode(value))

\* Attribute.decode
decode(kind, wire) == DynamizerDecode(wire)


\* Attribute.__init__: the declared attribute; a default makes it nullable.
Attribute(kind, hash_key, range_key, null, default) ==
    [type |-> kind, hash_key |-> hash_key, range_key |-> range_key,
     default |-> default,
     null |-> IF default /= None THEN TRUE ELSE null]

\* A zero-argument producer returning `value`, as a default.
Producer(value) == <<"function", value>>

callable(v) == PyType(v) = "function"

(***************************************************************************)
(* bynamodb/model.py: items.  A model type is given by the dict its        *)
(* _get_attributes returns, name -> Attribute; an item by its _data, here  *)
(* a function on the attribute names with None where _data has no entry.   *)
(***************************************************************************)
\* All orders in which a dict with these keys can be iterated.
Orders(S) ==
    {o \in [1..Cardinality(S) -> S] : \A n \in S : \E i \in DOMAIN o : o[i] = n}

\* Model._set_defaults
_set_defaults(attrs) ==
    [name \in DOMAIN attrs |->
        IF attrs[name].default /= None
        THEN IF callable(attrs[name].default) THEN attrs[name].default[2]
             ELSE attrs[name].default
        ELSE None]

\* Model.__init__(**data): defaults first, then each given name the type has.
ModelInit(attrs, data) ==
    [name \in DOMAIN attrs |->
        IF name \in DOMAIN data THEN data[name] ELSE _set_defaults(attrs)[name]]

\* Attribute.__set__ through setattr(item, name, value)
SetAttr(item, name, value) == [item EXCEPT ![name] = value]


\* boto's HashKey(name, data_type) and RangeKey(name, data_type)
HashKey(name, data_type) ==
    [name |-> name, data_type |-> data_type, attr_type |-> "HASH"]

RangeKey(name, data_type) ==
    [name |-> name, data_type |-> data_type, attr_type |-> "RANGE"]

NoKey == [name |-> "", data_type |-> "", attr_type |-> ""]

\* The loop of Model._get_keys over the attributes in dict order.
RECURSIVE KeyScan(_, _, _, _)
KeyScan(attrs, order, hash_key, range_key) ==
    IF order = <<>> THEN <<hash_key, range_key>>
    ELSE LET name == Head(order)
             attr == attrs[name]
         IN  IF attr.hash_key
             THEN KeyScan(attrs, Tail(order), HashKey(name, attr.type), range_key)
             ELSE IF attr.range_key
             THEN KeyScan(attrs, Tail(order), hash_key, RangeKey(name, attr.type))
             ELSE KeyScan(attrs, Tail(order), hash_key, range_key)

\* Model._get_keys, computed: [key for key in [hash_key, range_key] if key]
ComputeKeys(attrs, order) ==
    SelectSeq(KeyScan(attrs, order, NoKey, NoKey), LAMBDA key : key /= NoKey)

\* The keys of a model type that flags one hash key and at most one range
\* key: the same in whatever order the attributes are visited.
KeysOf(attrs) == ComputeKeys(attrs, CHOOSE o \in Orders(DOMAIN attrs) : TRUE)

KeyNames(keys) == {keys[i].name : i \in DOMAIN keys}

(***************************************************************************)
(* The store behind DynamoDBConnection: one table, a set of wire items     *)
(* (functions from attribute name to wire value), one per primary key.     *)
(***************************************************************************)
EmptyDict == <<>>

\* Whether a wire dict gives exactly the table's key attributes, well typed.
MatchesKeySchema(keys, key) ==
    /\ DOMAIN key = KeyNames(keys)
    /\ \A i \in DOMAIN keys : key[keys[i].name][1] = keys[i].data_type

PrimaryKey(keys, wire_item) == [n \in KeyNames(keys) |-> wire_item[n]]

\* DynamoDBConnection.put_item(table, data): the outcome and the table after
StorePutItem(keys, table, data) ==
    IF /\ KeyNames(keys) \subseteq DOMAIN data
       /\ MatchesKeySchema(keys, PrimaryKey(keys, data))
    THEN [outcome |-> Returned(EmptyDict),
          table |-> {i \in table : PrimaryKey(keys, i) /= PrimaryKey(keys, data)}
                      \cup {data}]
    ELSE [outcome |-> Raised(<<"JSONResponseError", "">>), table |-> table]

\* DynamoDBConnection.get_item(table, key): {'Item': item}, {} or an error
StoreGetItem(keys, table, key) ==
    IF ~MatchesKeySchema(keys, key) THEN Raised(<<"JSONResponseError", "">>)
    ELSE IF \E i \in table : PrimaryKey(keys, i) = key
    THEN Returned([Item |-> CHOOSE i \in table : PrimaryKey(keys, i) = key])
    ELSE Returned(EmptyDict)

(***************************************************************************)
(* bynamodb/model.py: writes and reads.  Each operation gives the outcome  *)
(* (what it returns or raises), the calls it made on the connection, and   *)
(* the table afterwards.                                                   *)
(***************************************************************************)
\* The loop of _put_item: the encoded data, or the first exception raised.
RECURSIVE PutLoop(_, _, _, _)
PutLoop(attrs, item, order, data) ==
    IF order = <<>> THEN Returned(data)
    ELSE LET name == Head(order)
             attr_value == item[name]
         IN  IF attr_value = None
             THEN IF ~attrs[name].null
                  THEN Raised(<<"NullAttributeException", name>>)
                  ELSE PutLoop(attrs, item, Tail(order), data)
             ELSE LET e == encode(attrs[name].type, attr_value)
                  IN  IF IsReturned(e)
                      THEN PutLoop(attrs, item, Tail(order),
                                   data @@ (name :> e[2]))
                      ELSE e

\* Model._put_item(item), the attributes visited in the order given
_put_item(attrs, table, item, order) ==
    LET built == PutLoop(attrs, item, order, EmptyDict) IN
    IF ~IsReturned(built)
    THEN [outcome |-> built, calls |-> <<>>, table |-> table]
    ELSE LET put == StorePutItem(KeysOf(attrs), table, built[2])
         IN  [outcome |-> IF IsReturned(put.outcome) THEN Returned(item)
                          ELSE put.outcome,
              calls |-> << <<"put_item", built[2]>> >>,
              table |-> put.table]

\* Model._encode_key: the range key is added `if range_key:`
_encode_key(keys, hash_key, range_key) ==
    IF ~Truthy(range_key)
    THEN Returned(keys[1].name :> DynamizerEncode(hash_key))
    ELSE IF Len(keys) < 2 THEN Raised(<<"IndexError", "">>)
    ELSE Returned((keys[1].name :> DynamizerEncode(hash_key))
                  @@ (keys[2].name :> DynamizerEncode(range_key)))

\* Model.from_raw_data
from_raw_data(attrs, item_raw) ==
    ModelInit(attrs, [name \in DOMAIN item_raw |->
                         decode(attrs[name].type, item_raw[name])])

\* get_item that takes every response for a found item.
GetItemNoMissCheck(attrs, table, hash_key, range_key) ==
    LET keys == KeysOf(attrs)
        key == _encode_key(keys, hash_key, range_key)
    IN  IF ~IsReturned(key) THEN [outcome |-> key, calls |-> <<>>]
        ELSE LET raw_data == StoreGetItem(keys, table, key[2])
                 calls == << <<"get_item", key[2]>> >>
             IN  IF ~IsReturned(raw_data)
                 THEN [outcome |-> raw_data, calls |-> calls]
                 ELSE IF "Item" \notin DOMAIN raw_data[2]
                 THEN [outcome |-> Returned(from_raw_data(attrs, EmptyDict)),
                       calls |-> calls]
                 ELSE [outcome |->
                           Returned(from_raw_data(attrs, raw_data[2].Item)),
                       calls |-> calls]

\* Model.get_item(hash_key, range_key=None)
get_item(attrs, table, hash_key, range_key) ==
    LET keys == KeysOf(attrs)
        key == _encode_key(keys, hash_key, range_key)
    IN  IF ~IsReturned(key) THEN [outcome |-> key, calls |-> <<>>]
        ELSE LET raw_data == StoreGetItem(keys, table, key[2])
                 calls == << <<"get_item", key[2]>> >>
             IN  IF ~IsReturned(raw_data)
                 THEN [outcome |-> raw_data, calls |-> calls]
                 ELSE IF "Item" \notin DOMAIN raw_data[2]
                 THEN [outcome |-> Raised(<<"ItemNotFoundException", "">>),
                       calls |-> calls]
                 ELSE [outcome |->
                           Returned(from_raw_data(attrs, raw_data[2].Item)),
                       calls |-> calls]


(***************************************************************************)
(* State.                                                                  *)
(***************************************************************************)
VARIABLES
    attrs,      \* the model type in use: what its _get_attributes returns
    table,      \* the store's table of that model type: a set of wire items
    lastOp,     \* the last operation: its arguments, outcome and store calls
    rows,       \* the table's rows in the order the store pages them
    pageSize,   \* the number of rows the store puts in a page
    rs,         \* the ResultSet being iterated
    yielded,    \* the items the ResultSet has produced, in order
    fetches,    \* the page fetches the ResultSet has issued, in order
    classes,    \* the declared model types: their base and class body
    cache       \* _attributes, _keys and _indexes as set on each type

itemVars == <<attrs, table, lastOp>>

pageVars == <<rows, pageSize, rs, yielded, fetches>>

schemaVars == <<classes, cache>>

vars == <<itemVars, pageVars, schemaVars>>

\* A ResultSet before query or scan made one.
NoResultSet ==
    [operation |-> "none", hash_key |-> None, state |-> "NONE",
     page |-> <<>>, cursor |-> <<>>]

\* No query or scan in progress, and no model type under derivation.
PageIdle ==
    /\ rows = <<>>
    /\ pageSize = 1
    /\ rs = NoResultSet
    /\ yielded = <<>>
    /\ fetches = <<>>

SchemaIdle ==
    /\ classes = <<>>
    /\ cache = <<>>

NoOp ==
    [op |-> "none", data |-> EmptyDict, item |-> EmptyDict,
     hash_key |-> None, range_key |-> None, value |-> None, cls |-> "",
     outcome |-> Returned(None), calls |-> <<>>, before |-> {}]

\* Model.put_item(**data), the data drawn from Data
PutItemFrom(Data) ==
    \E data \in Data, order \in Orders(DOMAIN attrs) :
        LET item == ModelInit(attrs, data)
            r == _put_item(attrs, table, item, order)
        IN  /\ table' = r.table
            /\ lastOp' = [NoOp EXCEPT !.op = "put_item", !.data = data,
                                      !.item = item, !.outcome = r.outcome,
                                      !.calls = r.calls, !.before = table]
            /\ UNCHANGED <<attrs, pageVars, schemaVars>>

\* item = Model(**data); possibly item.attr_1 = None; then item.save()
SaveFrom(Data) ==
    \E data \in Data, order \in Orders(DOMAIN attrs), emptied \in BOOLEAN :
        LET made == ModelInit(attrs, data)
            item == IF emptied THEN SetAttr(made, "attr_1", None) ELSE made
            r == _put_item(attrs, table, item, order)
        IN  /\ table' = r.table
            /\ lastOp' = [NoOp EXCEPT !.op = "save", !.data = data,
                                      !.item = item, !.outcome = r.outcome,
                                      !.calls = r.calls, !.before = table]
            /\ UNCHANGED <<attrs, pageVars, schemaVars>>

\* Model.get_item(hash_key, range_key)
GetItemFrom(HashKeys, RangeKeys) ==
    \E hash_key \in HashKeys, range_key \in RangeKeys :
        LET r == get_item(attrs, table, hash_key, range_key)
        IN  /\ lastOp' = [NoOp EXCEPT !.op = "get_item",
                                      !.hash_key = hash_key,
                                      !.range_key = range_key,
                                      !.outcome = r.outcome,
                                      !.calls = r.calls, !.before = table]
            /\ UNCHANGED <<attrs, table, pageVars, schemaVars>>

(***************************************************************************)
(* Spec: writing and reading the items of one model type.                  *)
(***************************************************************************)
\* The attribute beside the keys: plain, null=True, with a literal default,
\* with a producer as default, and a nullable number.
AttrDeclarations ==
    {Attribute(StringAttribute, FALSE, FALSE, FALSE, None),
     Attribute(StringAttribute, FALSE, FALSE, TRUE, None),
     Attribute(StringAttribute, FALSE, FALSE, FALSE, PyStr("Default value")),
     Attribute(StringAttribute, FALSE, FALSE, FALSE,
               Producer(PyStr("Default value"))),
     Attribute(NumberAttribute, FALSE, FALSE, TRUE, None)}

\* The model types: a String hash key, no range key or a String or Number
\* one, and one more attribute.
Declarations ==
    LET hash == "hash_key_attr" :>
                    Attribute(StringAttribute, TRUE, FALSE, FALSE, None)
        ranges == {EmptyDict,
                   "range_key_attr" :>
                       Attribute(StringAttribute, FALSE, TRUE, FALSE, None),
                   "range_key_attr" :>
                       Attribute(NumberAttribute, FALSE, TRUE, FALSE, None)}
    IN  {hash @@ r @@ ("attr_1" :> a) : r \in ranges, a \in AttrDeclarations}

\* The values a caller passes for an attribute when it writes an item.
ValuesFor(name) ==
    CASE name = "hash_key_attr" -> {PyStr("x")}
      [] name = "range_key_attr" -> {PyInt(0), PyInt(1), PyStr("p")}
      [] name = "attr_1" -> {PyStr("v"), PyInt(1)}

\* The hash keys a caller asks get_item for: one written, one never written.
HashKeysAsked == {PyStr("x"), PyStr("y")}

\* The keyword arguments of a call: the hash key and a value for some of the
\* other attributes.
DataOver(names) ==
    UNION {{d \in [S -> UNION {ValuesFor(n) : n \in names}] :
               \A n \in S : d[n] \in ValuesFor(n)} :
           S \in {T \in SUBSET names : "hash_key_attr" \in T}}

Init ==
    /\ attrs \in Declarations
    /\ table = {}
    /\ lastOp = NoOp
    /\ PageIdle
    /\ SchemaIdle

PutItem == PutItemFrom(DataOver(DOMAIN attrs))

Save == SaveFrom(DataOver(DOMAIN attrs))

GetItem == GetItemFrom(HashKeysAsked, ValuesFor("range_key_attr") \cup {None})

Next == PutItem \/ Save \/ GetItem

Spec == Init /\ [][Next]_vars

\* Whether the last operation was a write of an item (put_item or save).
WroteItem == lastOp.op \in {"put_item", "save"}

HasRangeKey == "range_key_attr" \in DOMAIN attrs

\* C1 (as claimed): after put_item(hash=H, range=R, attr=A) succeeds on a
\* model with a hash and a range key, get_item(H, R) sends a wire key holding
\* both keys and returns an item with hash == H, range == R and attr == A.
WriteReadConsistency ==
    (lastOp.op = "put_item" /\ IsReturned(lastOp.outcome) /\ HasRangeKey) =>
        LET got == get_item(attrs, table, lastOp.item["hash_key_attr"],
                            lastOp.item["range_key_attr"])
        IN  /\ Len(got.calls) = 1
            /\ DOMAIN got.calls[1][2] = {"hash_key_attr", "range_key_attr"}
            /\ IsReturned(got.outcome)
            /\ \A n \in DOMAIN attrs : PyEq(got.outcome[2][n], lastOp.item[n])


\* The non-nullable attributes the written item lacks, and the attributes
\* for which it holds a value their kind does not accept.
NonNullableAbsent ==
    {n \in DOMAIN attrs : ~attrs[n].null /\ lastOp.item[n] = None}

InvalidHeld ==
    {n \in DOMAIN attrs :
        lastOp.item[n] /= None /\ ~valid(attrs[n].type, lastOp.item[n])}

\* C2 (as claimed): put_item and save of an item that lacks a non-nullable
\* attribute raise NullAttributeException, never call the store's put_item
\* and leave the table unchanged.
NullEnforcement ==
    (WroteItem /\ NonNullableAbsent /= {}) =>
        /\ IsRaised(lastOp.outcome, "NullAttributeException")
        /\ lastOp.calls = <<>>
        /\ table = lastOp.before

\* The attributes declared with a default, and the default's value.
WithDefault == {n \in DOMAIN attrs : attrs[n].default /= None}

DefaultValue(n) ==
    IF callable(attrs[n].default) THEN attrs[n].default[2]
    ELSE attrs[n].default

\* The wire items the table holds under the written item's primary key.
StoredFor(item) ==
    {w \in table :
        \A i \in DOMAIN KeysOf(attrs) :
            w[KeysOf(attrs)[i].name]
                = DynamizerEncode(item[KeysOf(attrs)[i].name])}

\* C8 (as claimed): an attribute with a default is nullable; a put_item or
\* save that omits it raises no NullAttributeException for it and, when it
\* succeeds, stores the default (the producer's result), which a following
\* get_item for the item's key returns; a value the caller supplies is stored
\* instead.
DefaultsApplied ==
    \A n \in WithDefault :
        /\ attrs[n].null
        /\ (WroteItem /\ lastOp.item = ModelInit(attrs, lastOp.data)) =>
              /\ ~(IsRaised(lastOp.outcome, "NullAttributeException")
                     /\ lastOp.outcome[2][2] = n)
              /\ IsReturned(lastOp.outcome) =>
                    LET sent == IF n \in DOMAIN lastOp.data
                                THEN lastOp.data[n] ELSE DefaultValue(n)
                        got == get_item(attrs, table,
                                        lastOp.item["hash_key_attr"],
                                        IF HasRangeKey
                                        THEN lastOp.item["range_key_attr"]
                                        ELSE None)
                    IN  /\ StoredFor(lastOp.item) /= {}
                        /\ \A w \in StoredFor(lastOp.item) :
                              /\ n \in DOMAIN w
                              /\ w[n] = DynamizerEncode(sent)
                        /\ IsReturned(got.outcome)
                        /\ PyEq(got.outcome[2][n], sent)


(***************************************************************************)
(* SpecAttr: every attribute kind against values of every type.  The model *)
(* type has a String hash key and one attribute of the kind.               *)
(***************************************************************************)
\* Values of each Python type, those of test_attributes.py among them.
PyValues ==
    {None, PyInt(123), PyFloat(247), PyStr("1234"), <<"unicode", "a">>,
     <<"bool", TRUE>>, PySet({}), PySet({PyInt(1), PyInt(2)}),
     PySet({PyStr("a"), PyStr("b")}), PySet({PyFloat(3)}),
     PySet({PyInt(1), PyStr("a")}), <<"list", 0>>, <<"dict", 0>>}

KindDeclarations ==
    {("hash_key_attr" :> Attribute(StringAttribute, TRUE, FALSE, FALSE, None))
       @@ ("attr_1" :> Attribute(kind, FALSE, FALSE, null, None)) :
     kind \in Kinds, null \in BOOLEAN}

\* The keyword arguments: the hash key given, wrong or left out, and any
\* value (or none) for the attribute.
AnyData ==
    LET hashes == {EmptyDict, "hash_key_attr" :> PyStr("x"),
                   "hash_key_attr" :> PyInt(123)}
        values == {EmptyDict} \cup {"attr_1" :> v : v \in PyValues \ {None}}
    IN  {h @@ v : h \in hashes, v \in values}

InitAttr ==
    /\ attrs \in KindDeclarations
    /\ table = {}
    /\ lastOp = NoOp
    /\ PageIdle
    /\ SchemaIdle

\* attr.valid(value)
Validate ==
    \E value \in PyValues :
        /\ lastOp' = [NoOp EXCEPT
                        !.op = "valid", !.value = value,
                        !.outcome =
                            Returned(<<"bool",
                                       valid(attrs["attr_1"].type, value)>>)]
        /\ UNCHANGED <<attrs, table, pageVars, schemaVars>>

\* attr.encode(value)
Encode ==
    \E value \in PyValues :
        /\ lastOp' = [NoOp EXCEPT
                        !.op = "encode", !.value = value,
                        !.outcome = encode(attrs["attr_1"].type, value)]
        /\ UNCHANGED <<attrs, table, pageVars, schemaVars>>

PutAny == PutItemFrom(AnyData)

SaveAny == SaveFrom(AnyData)

NextAttr == Validate \/ Encode \/ PutAny \/ SaveAny

SpecAttr == InitAttr /\ [][NextAttr]_vars

\* C3: encode raises the validation error (ValueError) for every value the
\* kind's valid refuses; a put_item or save of an item that holds such a
\* value raises before any store call, whatever the other attributes hold,
\* and leaves the table unchanged.
Rejection ==
    /\ (lastOp.op = "encode"
          /\ ~valid(attrs["attr_1"].type, lastOp.value)) =>
            IsRaised(lastOp.outcome, "ValueError")
    /\ (WroteItem /\ InvalidHeld /= {}) =>
            /\ lastOp.outcome[1] = "raise"
            /\ lastOp.calls = <<>>
            /\ table = lastOp.before

\* C9 (as claimed): NumberAttribute.valid accepts an int and rejects a float
\* and text; NumberSetAttribute.valid applies the same rule to each element.
NumberValidation ==
    (lastOp.op = "valid") =>
        LET kind == attrs["attr_1"].type
            accepted == lastOp.outcome[2][2]
        IN  /\ (kind = NumberAttribute
                  /\ PyType(lastOp.value) \in {"int", "float", "str"}) =>
                    (accepted <=> NumberValidIntOnly(lastOp.value))
            /\ (kind = NumberSetAttribute /\ PyType(lastOp.value) = "set") =>
                    (accepted <=>
                        \A elem \in lastOp.value[2] : NumberValidIntOnly(elem))


(***************************************************************************)
(* ResultSet (bynamodb/results.py) and the store's query and scan.  A page *)
(* is the next pageSize matching rows after the start key, with the key of *)
(* its last row as continuation cursor when rows remain; a full page that  *)
(* ends the rows may carry a cursor too, and the fetch after it is empty.  *)
(***************************************************************************)
NoCursor == <<>>

\* Most rows in the table and largest page of SpecPage.
MaxRows == 3

MaxPage == 2

Min(a, b) == IF a < b THEN a ELSE b

\* ceil(n / p)
CeilDiv(n, p) == (n + p - 1) \div p

\* The rows a scan, or a query on hash_key EQ, selects, in store order.
Matching(all_rows, operation, hash_key) ==
    IF operation = "scan" THEN all_rows
    ELSE SelectSeq(all_rows,
                   LAMBDA w : w["hash_key_attr"] = DynamizerEncode(hash_key))

\* DynamoDBConnection.query / scan with exclusive_start_key = start
FetchPage(keys, matching, start, size, cursorOnFull) ==
    LET from == IF start = NoCursor THEN 0
                ELSE CHOOSE i \in DOMAIN matching :
                         PrimaryKey(keys, matching[i]) = start
        rest == SubSeq(matching, from + 1, Len(matching))
        items == SubSeq(rest, 1, Min(size, Len(rest)))
    IN  [items |-> items,
         cursor |-> IF Len(rest) > size \/ (Len(items) = size /\ cursorOnFull)
                    THEN PrimaryKey(keys, items[Len(items)])
                    ELSE NoCursor]

\* An element request that reads the first page and ignores its cursor.
AdvanceFirstPageOnly(attrs_, r, all_rows, size, cursorOnFull, log) ==
    LET p == FetchPage(KeysOf(attrs_),
                       Matching(all_rows, r.operation, r.hash_key),
                       NoCursor, size, cursorOnFull)
        first == r.state = "INITIAL"
        cur == IF first
               THEN [r EXCEPT !.page = p.items, !.state = "HAS_PAGE"]
               ELSE r
        log2 == IF first
                THEN Append(log, [start |-> NoCursor, cursor |-> NoCursor])
                ELSE log
    IN  IF cur.state = "EXHAUSTED" \/ cur.page = <<>>
        THEN [rs |-> [cur EXCEPT !.state = "EXHAUSTED"],
              outcome |-> Raised(<<"StopIteration", "">>), log |-> log2]
        ELSE [rs |-> [cur EXCEPT !.page = Tail(cur.page)],
              outcome |-> Returned(from_raw_data(attrs_, Head(cur.page))),
              log |-> log2]

\* One element request on the ResultSet: the ResultSet afterwards, the item
\* produced or the end of the sequence, and the fetches issued.
RECURSIVE Advance(_, _, _, _, _, _)
Advance(attrs_, r, all_rows, size, cursorOnFull, log) ==
    LET keys == KeysOf(attrs_)
        matching == Matching(all_rows, r.operation, r.hash_key)
        start == IF r.state = "INITIAL" THEN NoCursor ELSE r.cursor
        p == FetchPage(keys, matching, start, size, cursorOnFull)
        fetched == [r EXCEPT !.page = p.items, !.cursor = p.cursor,
                             !.state = IF p.items = <<>> /\ p.cursor = NoCursor
                                       THEN "EXHAUSTED" ELSE "HAS_PAGE"]
    IN  CASE r.state = "EXHAUSTED" ->
               [rs |-> r, outcome |-> Raised(<<"StopIteration", "">>),
                log |-> log]
          [] r.state = "INITIAL" ->
               Advance(attrs_, fetched, all_rows, size, cursorOnFull,
                       Append(log, [start |-> start, cursor |-> p.cursor]))
          [] r.state = "HAS_PAGE" /\ r.page /= <<>> ->
               [rs |-> [r EXCEPT !.page = Tail(r.page)],
                outcome |-> Returned(from_raw_data(attrs_, Head(r.page))),
                log |-> log]
          [] r.state = "HAS_PAGE" /\ r.page = <<>> /\ r.cursor /= NoCursor ->
               Advance(attrs_, fetched, all_rows, size, cursorOnFull,
                       Append(log, [start |-> start, cursor |-> p.cursor]))
          [] OTHER ->
               Advance(attrs_, [r EXCEPT !.state = "EXHAUSTED"], all_rows,
                       size, cursorOnFull, log)

\* Model.scan() and Model.query(hash_key_attr__eq=hash_key)
ResultSet(operation, hash_key) ==
    [NoResultSet EXCEPT !.operation = operation, !.hash_key = hash_key,
                        !.state = "INITIAL"]

(***************************************************************************)
(* SpecPage: query, scan and get_item on a table that holds N rows.        *)
(***************************************************************************)
QueryTestModel ==
    ("hash_key_attr" :> Attribute(StringAttribute, TRUE, FALSE, FALSE, None))
      @@ ("range_key_attr" :>
              Attribute(StringAttribute, FALSE, TRUE, FALSE, None))

\* Row i of the table, as stored.
Row(i) ==
    ("hash_key_attr" :> <<"S", "x">>) @@ ("range_key_attr" :> <<"S", IntText(i)>>)

InitPage ==
    /\ attrs = QueryTestModel
    /\ \E n \in 0..MaxRows : rows = [i \in 1..n |-> Row(i)]
    /\ table = {rows[i] : i \in DOMAIN rows}
    /\ pageSize \in 1..MaxPage
    /\ lastOp = NoOp
    /\ rs = NoResultSet
    /\ yielded = <<>>
    /\ fetches = <<>>
    /\ SchemaIdle

\* Model.scan()
Scan ==
    /\ rs' = ResultSet("scan", None)
    /\ yielded' = <<>>
    /\ fetches' = <<>>
    /\ lastOp' = [NoOp EXCEPT !.op = "scan", !.before = table]
    /\ UNCHANGED <<attrs, table, rows, pageSize, schemaVars>>

\* Model.query(hash_key_attr__eq=hash_key)
Query ==
    \E hash_key \in HashKeysAsked :
        /\ rs' = ResultSet("query", hash_key)
        /\ yielded' = <<>>
        /\ fetches' = <<>>
        /\ lastOp' = [NoOp EXCEPT !.op = "query", !.hash_key = hash_key,
                                  !.before = table]
        /\ UNCHANGED <<attrs, table, rows, pageSize, schemaVars>>

\* One step of iterating the ResultSet: next(iterator)
RsNext ==
    /\ rs.state /= "NONE"
    /\ \E cursorOnFull \in BOOLEAN :
         LET r == Advance(attrs, rs, rows, pageSize, cursorOnFull, <<>>)
         IN  /\ rs' = r.rs
             /\ fetches' = fetches \o r.log
             /\ yielded' = IF IsReturned(r.outcome)
                           THEN Append(yielded, r.outcome[2]) ELSE yielded
             /\ lastOp' = [NoOp EXCEPT !.op = "next", !.outcome = r.outcome,
                                       !.before = table]
    /\ UNCHANGED <<attrs, table, rows, pageSize, schemaVars>>

\* Model.get_item on the same table
GetItemPage ==
    /\ GetItemFrom(HashKeysAsked,
                   {None} \cup {PyStr(IntText(i)) : i \in 1..MaxRows})

NextPage == Scan \/ Query \/ RsNext \/ GetItemPage

SpecPage == InitPage /\ [][NextPage]_vars


\* The rows the ResultSet's query or scan matches, and their decoded items.
MatchingRows == Matching(rows, rs.operation, rs.hash_key)

Decoded == [i \in DOMAIN MatchingRows |-> from_raw_data(attrs, MatchingRows[i])]

\* No fetch was issued after a page that carried no continuation cursor.
NoFetchAfterLastPage ==
    \A i \in DOMAIN fetches : i < Len(fetches) => fetches[i].cursor /= NoCursor

\* C4 (as claimed): iterating a ResultSet over N matching rows in pages of
\* size P to completion yields the N decoded items in order, with exactly
\* ceil(N/P) fetches and none after a page without a cursor.
PaginationExhaustive ==
    (rs.state = "EXHAUSTED") =>
        /\ yielded = Decoded
        /\ Len(fetches) = CeilDiv(Len(MatchingRows), pageSize)
        /\ NoFetchAfterLastPage

\* C4 (amended): the items yielded are always the first of the N decoded
\* rows, in order; no fetch follows a page without a cursor; at completion
\* all N are yielded and the fetches number 1 when N = 0 and otherwise
\* ceil(N/P), plus one when the store gave a cursor with a final full page.
PaginationComplete ==
    (rs.state /= "NONE") =>
        LET N == Len(MatchingRows) IN
        /\ Len(yielded) <= N
        /\ yielded = SubSeq(Decoded, 1, Len(yielded))
        /\ NoFetchAfterLastPage
        /\ (rs.state = "EXHAUSTED") =>
              /\ yielded = Decoded
              /\ fetches[Len(fetches)].cursor = NoCursor
              /\ Len(fetches) =
                    IF N = 0 THEN 1
                    ELSE CeilDiv(N, pageSize)
                         + (IF N % pageSize = 0
                               /\ fetches[N \div pageSize].cursor /= NoCursor
                            THEN 1 ELSE 0)

\* C4 witness: a scan of all the rows ran to completion over several pages.
PaginationWitness ==
    /\ rs.state = "EXHAUSTED"
    /\ Len(rows) >= 2
    /\ Len(yielded) = Len(rows)
    /\ Len(fetches) >= 2

\* C7: get_item raises ItemNotFoundException exactly when the store's
\* response for the key carries no item; an element request on a query or
\* scan never raises it, and with zero matching rows it ends the sequence
\* with nothing produced.
ItemNotFoundOnlyFromGetItem ==
    /\ (lastOp.op = "get_item") =>
          (IsRaised(lastOp.outcome, "ItemNotFoundException") <=>
              /\ Len(lastOp.calls) = 1
              /\ LET response == StoreGetItem(KeysOf(attrs), lastOp.before,
                                              lastOp.calls[1][2])
                 IN  IsReturned(response) /\ "Item" \notin DOMAIN response[2])
    /\ (lastOp.op = "next") =>
          /\ ~IsRaised(lastOp.outcome, "ItemNotFoundException")
          /\ (MatchingRows = <<>>) =>
                /\ IsRaised(lastOp.outcome, "StopIteration")
                /\ yielded = <<>>

\* C7 witness: a query that matched no row ended empty, and then get_item
\* for a key the table lacks raised ItemNotFoundException.
ItemNotFoundWitness ==
    /\ rs.operation = "query"
    /\ rs.state = "EXHAUSTED"
    /\ MatchingRows = <<>>
    /\ yielded = <<>>
    /\ lastOp.op = "get_item"
    /\ IsRaised(lastOp.outcome, "ItemNotFoundException")


(***************************************************************************)
(* bynamodb/model.py: the schema of a model type.  A type is its base and  *)
(* its class body (member name -> Attribute or Index class); _attributes,  *)
(* _keys and _indexes are class attributes, read through the bases and     *)
(* assigned on the type itself.                                            *)
(***************************************************************************)
\* An Index class of bynamodb/indexes.py, as declared in a class body.
Index(name, kind, hash_key, range_key) ==
    [name |-> name, kind |-> kind, hash_key |-> hash_key,
     range_key |-> range_key, _keys |-> <<>>]

\* The Index classes that derive from GlobalIndex.
GlobalKinds == {"GlobalIndex", "GlobalAllIndex"}

IsAttribute(member) == "type" \in DOMAIN member

IsIndex(member) == "kind" \in DOMAIN member

\* ModelMeta.__new__: the _keys it sets on an Index class of the body
IndexKeys(dct, val) ==
    <<HashKey(val.hash_key, dct[val.hash_key].type)>>
      \o (IF val.range_key /= ""
          THEN <<RangeKey(val.range_key, dct[val.range_key].type)>>
          ELSE <<>>)

\* ModelMeta.__new__ on a class body
ModelMeta(dct) ==
    [name \in DOMAIN dct |->
        IF IsIndex(dct[name])
        THEN [dct[name] EXCEPT !._keys = IndexKeys(dct, dct[name])]
        ELSE dct[name]]

\* dir(cls): the member names of the type and of its bases.
RECURSIVE Dir(_, _)
Dir(cs, c) ==
    IF c = "Model" THEN {} ELSE DOMAIN cs[c].dct \cup Dir(cs, cs[c].base)

\* getattr(cls, name)
RECURSIVE GetAttr(_, _, _)
GetAttr(cs, c, name) ==
    IF name \in DOMAIN cs[c].dct THEN cs[c].dct[name]
    ELSE GetAttr(cs, cs[c].base, name)

\* A class attribute never assigned on the type (Model sets it to None).
Unset == <<"unset", <<>>>>

Assigned(value) == <<"set", value>>

NoCache == [_attributes |-> Unset, _keys |-> Unset, _indexes |-> Unset]

\* cls.<field>: the value assigned on the type or on the nearest base.
RECURSIVE ClassField(_, _, _, _)
ClassField(cs, ch, c, field) ==
    IF c = "Model" THEN Unset
    ELSE IF ch[c][field] /= Unset THEN ch[c][field]
    ELSE ClassField(cs, ch, cs[c].base, field)

\* `if cls.<field>:` is true of an assigned dict or list that is not empty.
IsFilled(found) == found /= Unset /\ DOMAIN found[2] /= {}

\* dir() lists names sorted; the member names of the model, in that order.
DirOrder ==
    <<"Index_3", "LocalIndex", "TestIndex", "attr_1", "attr_2", "attr_3",
      "attr_4">>

SortedNames(S) == SelectSeq(DirOrder, LAMBDA n : n \in S)

\* Model._get_attributes: the dict returned and the class attributes after
_get_attributes(cs, ch, c) ==
    LET found == ClassField(cs, ch, c, "_attributes")
        computed == [n \in {m \in Dir(cs, c) : IsAttribute(GetAttr(cs, c, m))}
                        |-> GetAttr(cs, c, n)]
    IN  IF IsFilled(found) THEN [value |-> found[2], cache |-> ch]
        ELSE [value |-> computed,
              cache |-> [ch EXCEPT ![c]._attributes = Assigned(computed)]]

\* Model._get_keys, the attributes visited in the order given
_get_keys(cs, ch, c, order) ==
    LET found == ClassField(cs, ch, c, "_keys")
        got == _get_attributes(cs, ch, c)
        computed == ComputeKeys(got.value, order)
    IN  IF IsFilled(found) THEN [value |-> found[2], cache |-> ch]
        ELSE [value |-> computed,
              cache |-> [got.cache EXCEPT ![c]._keys = Assigned(computed)]]

\* Model._get_indexes
_get_indexes(cs, ch, c) ==
    LET found == ClassField(cs, ch, c, "_indexes")
        names == SortedNames({m \in Dir(cs, c) : IsIndex(GetAttr(cs, c, m))})
        computed == [i \in DOMAIN names |-> GetAttr(cs, c, names[i])]
    IN  IF IsFilled(found) THEN [value |-> found[2], cache |-> ch]
        ELSE [value |-> computed,
              cache |-> [ch EXCEPT ![c]._indexes = Assigned(computed)]]

\* The orders in which _get_keys may visit the attributes of the type.
KeyOrders(cs, ch, c) == Orders(DOMAIN _get_attributes(cs, ch, c).value)


\* read_throughput / write_throughput when neither the call nor the type
\* gives one.
DefaultThroughput == 5

\* boto's key.schema() and key.definition()
KeySchemaOf(key) == [AttributeName |-> key.name, KeyType |-> key.attr_type]

KeyDefinition(key) ==
    [AttributeName |-> key.name, AttributeType |-> key.data_type]

\* Index.schema() of bynamodb/indexes.py: the index under its class name
\* with the key schema of its _keys.
IndexSchema(index) ==
    [IndexName |-> index.name,
     KeySchema |-> [i \in DOMAIN index._keys |-> KeySchemaOf(index._keys[i])]]

\* `list or None`
OrNone(list) ==
    IF list = <<>> THEN [present |-> FALSE, list |-> <<>>]
    ELSE [present |-> TRUE, list |-> list]

\* The attribute definitions create_table collects: those of the table's
\* keys, then those of each index key not seen before.
\* The collection without seen_attrs: a definition for every index key.
DefinitionsUnseen(pending, table_definitions, seen_attrs) ==
    table_definitions \o [i \in DOMAIN pending |-> KeyDefinition(pending[i])]

RECURSIVE Definitions(_, _, _)
Definitions(pending, table_definitions, seen_attrs) ==
    IF pending = <<>> THEN table_definitions
    ELSE LET key == Head(pending) IN
         IF key.name \in seen_attrs
         THEN Definitions(Tail(pending), table_definitions, seen_attrs)
         ELSE Definitions(Tail(pending),
                          Append(table_definitions, KeyDefinition(key)),
                          seen_attrs \cup {key.name})

RECURSIVE Flatten(_)
Flatten(lists) ==
    IF lists = <<>> THEN <<>> ELSE Head(lists) \o Flatten(Tail(lists))

\* Model.create_table(): the call it makes on the connection
create_table(cs, ch, c, order) ==
    LET keys == _get_keys(cs, ch, c, order)
        found == _get_indexes(cs, keys.cache, c)
        global_indexes ==
            SelectSeq(found.value, LAMBDA index : index.kind \in GlobalKinds)
        indexes ==
            SelectSeq(found.value, LAMBDA index : index.kind \notin GlobalKinds)
    IN  [cache |-> found.cache,
         call |->
            [table_name |-> c,
             key_schema |->
                [i \in DOMAIN keys.value |-> KeySchemaOf(keys.value[i])],
             attribute_definitions |->
                Definitions(
                    Flatten([i \in DOMAIN found.value |-> found.value[i]._keys]),
                    [i \in DOMAIN keys.value |-> KeyDefinition(keys.value[i])],
                    KeyNames(keys.value)),
             provisioned_throughput |->
                [ReadCapacityUnits |-> DefaultThroughput,
                 WriteCapacityUnits |-> DefaultThroughput],
             local_secondary_indexes |->
                OrNone([i \in DOMAIN indexes |-> IndexSchema(indexes[i])]),
             global_secondary_indexes |->
                OrNone([i \in DOMAIN global_indexes |->
                           IndexSchema(global_indexes[i])])]]

(***************************************************************************)
(* The schema calls, on any declared type.                                 *)
(***************************************************************************)
GetAttributes ==
    \E c \in DOMAIN classes :
        LET r == _get_attributes(classes, cache, c)
        IN  /\ cache' = r.cache
            /\ lastOp' = [NoOp EXCEPT !.op = "_get_attributes", !.cls = c,
                                      !.outcome = Returned(r.value)]
            /\ UNCHANGED <<attrs, table, pageVars, classes>>

GetKeys ==
    \E c \in DOMAIN classes :
        \E order \in KeyOrders(classes, cache, c) :
            LET r == _get_keys(classes, cache, c, order)
            IN  /\ cache' = r.cache
                /\ lastOp' = [NoOp EXCEPT !.op = "_get_keys", !.cls = c,
                                          !.outcome = Returned(r.value)]
                /\ UNCHANGED <<attrs, table, pageVars, classes>>

GetIndexes ==
    \E c \in DOMAIN classes :
        LET r == _get_indexes(classes, cache, c)
        IN  /\ cache' = r.cache
            /\ lastOp' = [NoOp EXCEPT !.op = "_get_indexes", !.cls = c,
                                      !.outcome = Returned(r.value)]
            /\ UNCHANGED <<attrs, table, pageVars, classes>>

CreateTable ==
    \E c \in DOMAIN classes :
        \E order \in KeyOrders(classes, cache, c) :
            LET r == create_table(classes, cache, c, order)
            IN  /\ cache' = r.cache
                /\ lastOp' = [NoOp EXCEPT
                                !.op = "create_table", !.cls = c,
                                !.calls = << <<"create_table", r.call>> >>]
                /\ UNCHANGED <<attrs, table, pageVars, classes>>

NextSchema == GetAttributes \/ GetKeys \/ GetIndexes \/ CreateTable


\* Attribute declarations by flag.
HashAttr(kind) == Attribute(kind, TRUE, FALSE, FALSE, None)

RangeAttr(kind) == Attribute(kind, FALSE, TRUE, FALSE, None)

PlainAttr(kind) == Attribute(kind, FALSE, FALSE, FALSE, None)

\* The indexes of test_model.py, and a global index without a range key.
TestIndex == Index("TestIndex", "GlobalAllIndex", "attr_2", "attr_1")

LocalIndex == Index("LocalIndex", "AllIndex", "attr_1", "attr_3")

Index_3 == Index("Index_3", "GlobalAllIndex", "attr_3", "")

DeclareClass(base, body) == [base |-> base, dct |-> ModelMeta(body)]

(***************************************************************************)
(* SpecTable: one model type declared directly on Model, with any key      *)
(* flags and any of the three indexes.                                     *)
(***************************************************************************)
TableBodies ==
    {("attr_1" :> a1) @@ ("attr_2" :> a2) @@ ("attr_3" :> a3)
        @@ [n \in {i.name : i \in indexes} |->
               CHOOSE i \in indexes : i.name = n] :
     a1 \in {HashAttr(StringAttribute), PlainAttr(StringAttribute)},
     a2 \in {RangeAttr(StringAttribute), HashAttr(StringAttribute),
             PlainAttr(StringAttribute)},
     a3 \in {PlainAttr(StringAttribute), PlainAttr(NumberAttribute)},
     indexes \in SUBSET {TestIndex, LocalIndex, Index_3}}

InitTable ==
    /\ \E body \in TableBodies :
          classes = ("TestModel" :> DeclareClass("Model", body))
    /\ cache = ("TestModel" :> NoCache)
    /\ attrs = <<>>
    /\ table = {}
    /\ lastOp = NoOp
    /\ PageIdle

SpecTable == InitTable /\ [][NextSchema]_vars

(***************************************************************************)
(* SpecSchema: a model type and a model type derived from it.              *)
(***************************************************************************)
BaseBodies ==
    {<<>>,
     "attr_1" :> HashAttr(StringAttribute),
     ("attr_1" :> HashAttr(StringAttribute))
        @@ ("attr_2" :> RangeAttr(StringAttribute)),
     ("attr_1" :> HashAttr(StringAttribute))
        @@ ("attr_2" :> PlainAttr(StringAttribute))
        @@ ("TestIndex" :> TestIndex)}

DerivedBodies ==
    {<<>>,
     "attr_3" :> PlainAttr(NumberAttribute),
     "attr_3" :> RangeAttr(NumberAttribute),
     "attr_3" :> HashAttr(StringAttribute),
     ("attr_3" :> PlainAttr(StringAttribute)) @@ ("Index_3" :> Index_3)}

InitSchema ==
    /\ \E base \in BaseBodies, derived \in DerivedBodies :
          classes = ("Base" :> DeclareClass("Model", base))
                      @@ ("Derived" :> DeclareClass("Base", derived))
    /\ cache = [c \in {"Base", "Derived"} |-> NoCache]
    /\ attrs = <<>>
    /\ table = {}
    /\ lastOp = NoOp
    /\ PageIdle

SpecSchema == InitSchema /\ [][NextSchema]_vars

\* What the declaration of a type alone determines: its attributes, its
\* indexes (in dir order) and, per visiting order, its keys.
DeclaredAttributes(c) ==
    [n \in {m \in Dir(classes, c) : IsAttribute(GetAttr(classes, c, m))}
        |-> GetAttr(classes, c, n)]

DeclaredIndexes(c) ==
    LET names == SortedNames({m \in Dir(classes, c) :
                                 IsIndex(GetAttr(classes, c, m))})
    IN  [i \in DOMAIN names |-> GetAttr(classes, c, names[i])]

DeclaredKeys(c) ==
    {ComputeKeys(DeclaredAttributes(c), o) :
        o \in Orders(DOMAIN DeclaredAttributes(c))}

\* C5 (as claimed): whatever types were used before, _get_attributes,
\* _get_keys and _get_indexes of a type return what the type's own
\* declaration determines, and a later call returns the same.
SchemaPerType ==
    LET c == lastOp.cls
        result == lastOp.outcome[2]
    IN  /\ (lastOp.op = "_get_attributes") =>
              /\ result = DeclaredAttributes(c)
              /\ _get_attributes(classes, cache, c).value = result
        /\ (lastOp.op = "_get_keys") =>
              /\ result \in DeclaredKeys(c)
              /\ \A o \in KeyOrders(classes, cache, c) :
                    _get_keys(classes, cache, c, o).value = result
        /\ (lastOp.op = "_get_indexes") =>
              /\ result = DeclaredIndexes(c)
              /\ _get_indexes(classes, cache, c).value = result

\* The attributes of the type flagged as hash key, and as range key.
HashFlagged(c) ==
    {n \in DOMAIN DeclaredAttributes(c) : DeclaredAttributes(c)[n].hash_key}

RangeFlagged(c) ==
    {n \in DOMAIN DeclaredAttributes(c) : DeclaredAttributes(c)[n].range_key}

\* C6 (as claimed): _get_keys fails with a schema error unless exactly one
\* attribute is flagged hash; a key schema is returned only for one hash
\* flag and at most one range flag, and its first key is the hash attribute.
KeySchemaValidated ==
    (lastOp.op = "_get_keys") =>
        /\ (Cardinality(HashFlagged(lastOp.cls)) /= 1) =>
              IsRaised(lastOp.outcome, "SchemaError")
        /\ IsReturned(lastOp.outcome) =>
              /\ Cardinality(HashFlagged(lastOp.cls)) = 1
              /\ Cardinality(RangeFlagged(lastOp.cls)) <= 1
              /\ lastOp.outcome[2][1].name \in HashFlagged(lastOp.cls)

\* The Index classes the type declares, its own and those it inherits.
DeclaredIn(c) == {DeclaredIndexes(c)[i] : i \in DOMAIN DeclaredIndexes(c)}

EntriesFor(list, name) ==
    {i \in DOMAIN list.list : list.list[i].IndexName = name}

\* The key schema an index declares: HASH its hash_key, RANGE its range_key.
DeclaredKeySchema(index) ==
    <<[AttributeName |-> index.hash_key, KeyType |-> "HASH"]>>
      \o (IF index.range_key /= ""
          THEN <<[AttributeName |-> index.range_key, KeyType |-> "RANGE"]>>
          ELSE <<>>)

\* C10: create_table passes each declared index exactly once, a Global one
\* in global_secondary_indexes only and any other in
\* local_secondary_indexes only, under its name and with its declared key
\* schema; a list with no index of its kind is passed as None.
IndexesPassedByKind ==
    (lastOp.op = "create_table") =>
        LET call == lastOp.calls[1][2]
            globals == call.global_secondary_indexes
            locals == call.local_secondary_indexes
            declared == DeclaredIn(lastOp.cls)
        IN  /\ \A index \in declared :
                  LET own == IF index.kind \in GlobalKinds
                             THEN globals ELSE locals
                      other == IF index.kind \in GlobalKinds
                               THEN locals ELSE globals
                  IN  /\ Cardinality(EntriesFor(own, index.name)) = 1
                      /\ EntriesFor(other, index.name) = {}
                      /\ \A i \in EntriesFor(own, index.name) :
                            own.list[i].KeySchema = DeclaredKeySchema(index)
            /\ Len(globals.list) + Len(locals.list) = Cardinality(declared)
            /\ globals.present <=>
                  (\E index \in declared : index.kind \in GlobalKinds)
            /\ locals.present <=>
                  (\E index \in declared : index.kind \notin GlobalKinds)

\* The attribute names in the key schemas of the indexes a create_table
\* request carries, local and global.
IndexKeyNames(call) ==
    LET passed == call.local_secondary_indexes.list
                    \o call.global_secondary_indexes.list
    IN  UNION {{passed[i].KeySchema[j].AttributeName :
                   j \in DOMAIN passed[i].KeySchema} : i \in DOMAIN passed}

KeySchemaNames(call) ==
    {call.key_schema[i].AttributeName : i \in DOMAIN call.key_schema}

\* C12: in a create_table request, attribute_definitions holds exactly one
\* definition for each attribute name of the table key schema or of the key
\* schema of an index of the request, and none for any other name.
DefinitionsExact ==
    (lastOp.op = "create_table") =>
        LET call == lastOp.calls[1][2]
            defs == call.attribute_definitions
        IN  /\ {defs[i].AttributeName : i \in DOMAIN defs}
                  = KeySchemaNames(call) \cup IndexKeyNames(call)
            /\ \A i, j \in DOMAIN defs :
                  defs[i].AttributeName = defs[j].AttributeName => i = j

\* A request with three indexes whose key attributes overlap with each other
\* and with the table's keys.
DefinitionsWitness ==
    /\ lastOp.op = "create_table"
    /\ LET call == lastOp.calls[1][2]
           passed == call.local_secondary_indexes.list
                       \o call.global_secondary_indexes.list
       IN  /\ Len(passed) = 3
           /\ Len(call.key_schema) = 2
           /\ KeySchemaNames(call) \cap IndexKeyNames(call) /= {}
           /\ \E i, j \in DOMAIN passed :
                 /\ i /= j
                 /\ \E k \in DOMAIN passed[i].KeySchema :
                        \E l \in DOMAIN passed[j].KeySchema :
                            passed[i].KeySchema[k].AttributeName
                              = passed[j].KeySchema[l].AttributeName

(***************************************************************************)
(* SpecDerived: writing items of a model type derived from another model   *)
(* type.  attrs holds the attributes the type in use declares; what the    *)
(* operations work with is what its _get_attributes returns.               *)
(***************************************************************************)
\* Model.__init__(**data) of a type whose _get_attributes returns `used`:
\* the defaults of `used`, then each given name that dir(self) lists.
ModelInitOf(declared, used, data) ==
    [name \in DOMAIN declared |->
        IF name \in DOMAIN data THEN data[name]
        ELSE IF name \in DOMAIN used THEN _set_defaults(used)[name]
        ELSE None]

InitDerived ==
    /\ \E a \in AttrDeclarations :
          classes =
              ("Base" :> DeclareClass("Model",
                            "hash_key_attr" :> HashAttr(StringAttribute)))
                @@ ("Derived" :> DeclareClass("Base", "attr_1" :> a))
    /\ cache = [c \in {"Base", "Derived"} |-> NoCache]
    /\ attrs = DeclaredAttributes("Derived")
    /\ table = {}
    /\ lastOp = NoOp
    /\ PageIdle

\* Derived.put_item(**data)
PutItemDerived ==
    \E data \in DataOver(DOMAIN attrs) :
        LET got == _get_attributes(classes, cache, "Derived") IN
        \E order \in Orders(DOMAIN got.value) :
            LET item == ModelInitOf(attrs, got.value, data)
                r == _put_item(got.value, table, item, order)
            IN  /\ table' = r.table
                /\ cache' = got.cache
                /\ lastOp' = [NoOp EXCEPT
                                !.op = "put_item", !.cls = "Derived",
                                !.data = data, !.item = item,
                                !.outcome = r.outcome, !.calls = r.calls,
                                !.before = table]
                /\ UNCHANGED <<attrs, pageVars, classes>>

\* item = Derived(**data); item.save()
SaveDerived ==
    \E data \in DataOver(DOMAIN attrs) :
        LET got == _get_attributes(classes, cache, "Derived") IN
        \E order \in Orders(DOMAIN got.value) :
            LET item == ModelInitOf(attrs, got.value, data)
                r == _put_item(got.value, table, item, order)
            IN  /\ table' = r.table
                /\ cache' = got.cache
                /\ lastOp' = [NoOp EXCEPT
                                !.op = "save", !.cls = "Derived",
                                !.data = data, !.item = item,
                                !.outcome = r.outcome, !.calls = r.calls,
                                !.before = table]
                /\ UNCHANGED <<attrs, pageVars, classes>>

NextDerived == GetAttributes \/ Encode \/ PutItemDerived \/ SaveDerived

SpecDerived == InitDerived /\ [][NextDerived]_vars

(***************************************************************************)
(* SpecDelete: writing, deleting and reading the items of one model type.  *)
(***************************************************************************)
\* DynamoDBConnection.delete_item(table, key): the outcome and the table
\* after.  A key that is not a wire key of the table's schema is refused.
StoreDeleteItem(keys, table_, key) ==
    IF ~MatchesKeySchema(keys, key)
    THEN [outcome |-> Raised(<<"JSONResponseError", "">>), table |-> table_]
    ELSE [outcome |-> Returned(EmptyDict),
          table |-> {i \in table_ : PrimaryKey(keys, i) /= key}]

\* Model.delete: key = dict((key, getattr(self, key)) for key in key_fields)
delete(attrs_, table_, item) ==
    LET keys == KeysOf(attrs_)
        key == [name \in KeyNames(keys) |-> item[name]]
        deleted == StoreDeleteItem(keys, table_, key)
    IN  [outcome |-> deleted.outcome,
         calls |-> << <<"delete_item", key>> >>,
         table |-> deleted.table]

\* The model types deleted from: a String hash key, no range key or a String
\* or Number one, and a plain attribute.
DeleteDeclarations ==
    {d \in Declarations :
        d["attr_1"] = Attribute(StringAttribute, FALSE, FALSE, TRUE, None)}

InitDelete ==
    /\ attrs \in DeleteDeclarations
    /\ table = {}
    /\ lastOp = NoOp
    /\ PageIdle
    /\ SchemaIdle

\* item = Model(**data); item.delete()
Delete ==
    \E data \in DataOver(DOMAIN attrs) :
        LET item == ModelInit(attrs, data)
            r == delete(attrs, table, item)
        IN  /\ table' = r.table
            /\ lastOp' = [NoOp EXCEPT !.op = "delete", !.data = data,
                                      !.item = item, !.outcome = r.outcome,
                                      !.calls = r.calls, !.before = table]
            /\ UNCHANGED <<attrs, pageVars, schemaVars>>

NextDelete == PutItem \/ GetItem \/ Delete

SpecDelete == InitDelete /\ [][NextDelete]_vars

\* Whether the item deleted is one the table held: some stored item has the
\* wire form of its key.
DeletedWasStored ==
    \E i \in lastOp.before :
        \A n \in KeyNames(KeysOf(attrs)) :
            lastOp.item[n] /= None /\ i[n] = DynamizerEncode(lastOp.item[n])

\* C11 (as claimed): delete calls delete_item once with a key holding exactly
\* the model's key attributes, each value in its wire form, the key get_item
\* sends for the item; and after the delete of a stored item, get_item for
\* its key raises ItemNotFoundException.
DeleteSendsWireKey ==
    (lastOp.op = "delete" /\ DeletedWasStored) =>
        LET keys == KeysOf(attrs)
            hash_key == lastOp.item[keys[1].name]
            range_key == IF Len(keys) = 2 THEN lastOp.item[keys[2].name]
                         ELSE None
            got == get_item(attrs, table, hash_key, range_key)
        IN  /\ Len(lastOp.calls) = 1
            /\ lastOp.calls[1][1] = "delete_item"
            /\ DOMAIN lastOp.calls[1][2] = KeyNames(keys)
            /\ \A n \in KeyNames(keys) :
                   lastOp.calls[1][2][n] = DynamizerEncode(lastOp.item[n])
            /\ IsRaised(got.outcome, "ItemNotFoundException")

====
